---- MODULE Spec2Model ----
(***************************************************************************)
(* State-machine model of coffee_shop_app.py: the Streamlit session state  *)
(* (menu, inventory, orders, order_counter, daily_sales, current_order)    *)
(* and the handlers that mutate it.                                        *)
(*                                                                         *)
(* Conventions.                                                            *)
(*  - Money is kept in cents.  Every price the model uses is a multiple of *)
(*    0.25, which binary floating point represents exactly, so the float   *)
(*    sums of the program and the integer sums here agree.                 *)
(*  - Python objects are shared by reference: an Order lives in `heap`     *)
(*    (its address is its index) and `orders` / `current_order` hold       *)
(*    addresses, so an order that is listed twice is one object.           *)
(*  - Order.timestamp is never read by the operations modelled; it is      *)
(*    left out.                                                            *)
(*  - `checked` is a history variable, not program state: for each line of *)
(*    each order, the ingredients whose stock the "Add to Order" check     *)
(*    compared with the line's quantity when the line was accepted.        *)
(***************************************************************************)
EXTENDS Integers, Sequences, FiniteSets, TLC

VARIABLES menu, inventory, heap, orders, order_counter, daily_sales,
          current_order, st_error, restocks, checked

vars == <<menu, inventory, heap, orders, order_counter, daily_sales,
          current_order, st_error, restocks, checked>>

(***************************************************************************)
(* Bounds of the model.                                                    *)
(***************************************************************************)
MaxOrders == 2
MaxLineItems == 3
MaxRestocks == 1
MaxHistory == 3

(***************************************************************************)
(* Inputs the handlers are driven with.                                    *)
(***************************************************************************)
None == 0
NoError == ""
CustomerNames == {"Walk-in"}
LineInputs ==
    { <<"", 3>>, <<"Espresso", 3>>, <<"Green Tea", 3>>, <<"Green Tea", 6>>,
      <<"Chai", 3>>, <<"Chai", 6>> }
NewRecipeText == <<"Honey", "", "Butter", "Tea leaves">>
MenuForms ==
    { <<"", 300, "Tea", NewRecipeText>>,
      <<"Chai", 0, "Tea", NewRecipeText>>,
      <<"Chai", 300, "", NewRecipeText>>,
      <<"Chai", 300, "Tea", NewRecipeText>>,
      <<"Green Tea", 300, "Drinks", NewRecipeText>> }
StockForms ==
    { <<"", 2, "kg", 10>>,
      <<"Honey", 0, "kg", 10>>,
      <<"Honey", 2, "", 10>>,
      <<"Honey", 2, "kg", 10>>,
      <<"Tea leaves", 2, "kg", 10>> }

(***************************************************************************)
(* Data classes.                                                           *)
(***************************************************************************)
MenuItem(name, price, category, ingredients) ==
    [name |-> name, price |-> price, category |-> category,
     ingredients |-> ingredients]

InventoryItem(name, quantity, unit, min_stock) ==
    [name |-> name, quantity |-> quantity, unit |-> unit,
     min_stock |-> min_stock]

Order(order_id, customer_name) ==
    [order_id |-> order_id, customer_name |-> customer_name,
     items |-> <<>>, total |-> 0, status |-> "pending"]

add_item_unit_subtotal(order, menu_item, quantity) ==
    [order EXCEPT
       !.items = Append(@, [name |-> menu_item.name,
                            price |-> menu_item.price,
                            quantity |-> quantity,
                            category |-> menu_item.category,
                            subtotal |-> menu_item.price]),
       !.total = @ + menu_item.price * quantity]

add_item(order, menu_item, quantity) ==
    [order EXCEPT
       !.items = Append(@, [name |-> menu_item.name,
                            price |-> menu_item.price,
                            quantity |-> quantity,
                            category |-> menu_item.category,
                            subtotal |-> menu_item.price * quantity]),
       !.total = @ + menu_item.price * quantity]

(***************************************************************************)
(* A dict as a function; d[k] = v inserts or replaces.                     *)
(***************************************************************************)
DictSet(d, k, v) ==
    [x \in DOMAIN d \cup {k} |-> IF x = k THEN v ELSE d[x]]

RECURSIVE DictFromItems(_, _)
DictFromItems(d, its) ==
    IF its = <<>> THEN d
    ELSE DictFromItems(DictSet(d, Head(its).name, Head(its)), Tail(its))

EmptyDict == [x \in {} |-> 0]

default_items ==
    << MenuItem("Espresso", 250, "Coffee", <<"Coffee beans", "Water">>),
       MenuItem("Americano", 300, "Coffee", <<"Coffee beans", "Water">>),
       MenuItem("Cappuccino", 400, "Coffee", <<"Coffee beans", "Milk", "Water">>),
       MenuItem("Latte", 450, "Coffee", <<"Coffee beans", "Milk", "Water">>),
       MenuItem("Mocha", 500, "Coffee",
                <<"Coffee beans", "Milk", "Chocolate", "Water">>),
       MenuItem("Croissant", 350, "Pastry", <<"Flour", "Butter">>),
       MenuItem("Muffin", 275, "Pastry", <<"Flour", "Sugar", "Eggs">>),
       MenuItem("Green Tea", 200, "Tea", <<"Tea leaves", "Water">>) >>

setup_default_menu == DictFromItems(EmptyDict, default_items)

default_inventory ==
    << InventoryItem("Coffee beans", 100, "kg", 20),
       InventoryItem("Milk", 50, "liters", 10),
       InventoryItem("Water", 200, "liters", 50),
       InventoryItem("Sugar", 25, "kg", 5),
       InventoryItem("Chocolate", 15, "kg", 3),
       InventoryItem("Flour", 30, "kg", 5),
       InventoryItem("Butter", 10, "kg", 2),
       InventoryItem("Eggs", 100, "pieces", 20),
       InventoryItem("Tea leaves", 5, "kg", 1) >>

setup_default_inventory == DictFromItems(EmptyDict, default_inventory)

Init ==
    /\ menu = setup_default_menu
    /\ inventory = setup_default_inventory
    /\ heap = <<>>
    /\ orders = <<>>
    /\ order_counter = 1
    /\ daily_sales = 0
    /\ current_order = None
    /\ st_error = NoError
    /\ restocks = 0
    /\ checked = <<>>

(***************************************************************************)
(* create_order_page: "Start New Order".                                   *)
(***************************************************************************)
StartNewOrder_no_increment(customer_name) ==
    /\ current_order = None
    /\ order_counter <= MaxOrders
    /\ heap' = Append(heap, Order(order_counter, customer_name))
    /\ current_order' = Len(heap) + 1
    /\ order_counter' = order_counter
    /\ st_error' = NoError
    /\ checked' = Append(checked, <<>>)
    /\ UNCHANGED <<menu, inventory, orders, daily_sales, restocks>>

StartNewOrder(customer_name) ==
    /\ current_order = None
    /\ order_counter <= MaxOrders
    /\ heap' = Append(heap, Order(order_counter, customer_name))
    /\ current_order' = Len(heap) + 1
    /\ order_counter' = order_counter + 1
    /\ st_error' = NoError
    /\ checked' = Append(checked, <<>>)
    /\ UNCHANGED <<menu, inventory, orders, daily_sales, restocks>>

(***************************************************************************)
(* create_order_page: the ingredient availability loop of "Add to Order".  *)
(* is_short is the comparison of one tracked ingredient; not_enough walks  *)
(* the recipe in list order, skips ingredients the inventory does not      *)
(* hold, and stops at the first short one (NoError: can_make stays True).  *)
(***************************************************************************)
is_short_one_unit(item, quantity) == item.quantity < 1

is_short(item, quantity) == item.quantity < quantity

RECURSIVE not_enough_untracked_short(_, _, _)
not_enough_untracked_short(ingredients, quantity, inv) ==
    IF ingredients = <<>> THEN NoError
    ELSE IF \/ Head(ingredients) \notin DOMAIN inv
            \/ is_short(inv[Head(ingredients)], quantity)
         THEN Head(ingredients)
         ELSE not_enough_untracked_short(Tail(ingredients), quantity, inv)

RECURSIVE not_enough(_, _, _)
not_enough(ingredients, quantity, inv) ==
    IF ingredients = <<>> THEN NoError
    ELSE IF /\ Head(ingredients) \in DOMAIN inv
            /\ is_short(inv[Head(ingredients)], quantity)
         THEN Head(ingredients)
         ELSE not_enough(Tail(ingredients), quantity, inv)

compared(ingredients, inv) ==
    {ingredients[k] : k \in 1..Len(ingredients)} \cap DOMAIN inv

can_make(menu_item, quantity, inv) ==
    not_enough(menu_item.ingredients, quantity, inv) = NoError

RECURSIVE TotalLines(_)
TotalLines(h) ==
    IF h = <<>> THEN 0 ELSE Len(Head(h).items) + TotalLines(Tail(h))

(***************************************************************************)
(* What "Add to Order" does to the order and to the inventory when the     *)
(* line is accepted.                                                       *)
(***************************************************************************)
accept_line_reserving(a, menu_item, quantity) ==
    /\ heap' = [heap EXCEPT ![a] = add_item(@, menu_item, quantity)]
    /\ inventory' = [i \in DOMAIN inventory |->
                       IF i \in {menu_item.ingredients[k] :
                                    k \in 1..Len(menu_item.ingredients)}
                       THEN [inventory[i] EXCEPT !.quantity = @ - quantity]
                       ELSE inventory[i]]

accept_line(a, menu_item, quantity) ==
    /\ heap' = [heap EXCEPT ![a] = add_item(@, menu_item, quantity)]
    /\ inventory' = inventory

AddToOrder(selected_item, quantity) ==
    /\ current_order # None
    /\ selected_item \in {""} \cup DOMAIN menu
    /\ TotalLines(heap) < MaxLineItems
    /\ IF selected_item = ""
       THEN /\ st_error' = NoError
            /\ UNCHANGED <<heap, inventory, checked>>
       ELSE IF can_make(menu[selected_item], quantity, inventory)
            THEN /\ accept_line(current_order, menu[selected_item], quantity)
                 /\ st_error' = NoError
                 /\ checked' =
                        [checked EXCEPT ![current_order] =
                            Append(@, compared(menu[selected_item].ingredients,
                                               inventory))]
            ELSE /\ st_error' = not_enough(menu[selected_item].ingredients,
                                        quantity, inventory)
                 /\ UNCHANGED <<heap, inventory, checked>>
    /\ UNCHANGED <<menu, orders, order_counter, daily_sales, current_order,
                   restocks>>

(***************************************************************************)
(* complete_order: the deduction loops, then status, history and sales.    *)
(***************************************************************************)
RECURSIVE deduct_one_each(_, _, _)
deduct_one_each(inv, ingredients, quantity) ==
    IF ingredients = <<>> THEN inv
    ELSE deduct_one_each(
             IF Head(ingredients) \in DOMAIN inv
             THEN [inv EXCEPT ![Head(ingredients)].quantity = @ - 1]
             ELSE inv,
             Tail(ingredients), quantity)

RECURSIVE deduct_ingredients(_, _, _)
deduct_ingredients(inv, ingredients, quantity) ==
    IF ingredients = <<>> THEN inv
    ELSE deduct_ingredients(
             IF Head(ingredients) \in DOMAIN inv
             THEN [inv EXCEPT ![Head(ingredients)].quantity = @ - quantity]
             ELSE inv,
             Tail(ingredients), quantity)

RECURSIVE deduct_items(_, _, _)
deduct_items(inv, items, m) ==
    IF items = <<>> THEN inv
    ELSE deduct_items(
             deduct_ingredients(inv, m[Head(items).name].ingredients,
                                Head(items).quantity),
             Tail(items), m)

complete_order_last_line_sale(a) ==
    /\ inventory' = deduct_items(inventory, heap[a].items, menu)
    /\ heap' = [heap EXCEPT ![a].status = "completed"]
    /\ orders' = Append(orders, a)
    /\ daily_sales' = daily_sales
                       + heap[a].items[Len(heap[a].items)].subtotal

complete_order(a) ==
    /\ inventory' = deduct_items(inventory, heap[a].items, menu)
    /\ heap' = [heap EXCEPT ![a].status = "completed"]
    /\ orders' = Append(orders, a)
    /\ daily_sales' = daily_sales + heap[a].total

CompleteOrder_keeps_current ==
    /\ current_order # None
    /\ heap[current_order].items # <<>>
    /\ complete_order(current_order)
    /\ current_order' = current_order
    /\ st_error' = NoError
    /\ UNCHANGED <<menu, order_counter, restocks, checked>>

CompleteOrder ==
    /\ current_order # None
    /\ heap[current_order].items # <<>>
    /\ complete_order(current_order)
    /\ current_order' = None
    /\ st_error' = NoError
    /\ UNCHANGED <<menu, order_counter, restocks, checked>>

RECURSIVE SumLineQuantities(_, _, _)
SumLineQuantities(items, i, m) ==
    IF items = <<>> THEN 0
    ELSE (IF \E k \in 1..Len(m[Head(items).name].ingredients) :
                 m[Head(items).name].ingredients[k] = i
          THEN Head(items).quantity ELSE 0)
         + SumLineQuantities(Tail(items), i, m)

(***************************************************************************)
(* create_order_page: "Cancel Order".                                      *)
(***************************************************************************)
cancel_order_restocking(a) ==
    /\ heap' = [heap EXCEPT ![a].status = "cancelled"]
    /\ orders' = Append(orders, a)
    /\ inventory' = [i \in DOMAIN inventory |->
                       [inventory[i] EXCEPT !.quantity =
                           @ + SumLineQuantities(heap[a].items, i, menu)]]
    /\ daily_sales' = daily_sales

cancel_order(a) ==
    /\ heap' = [heap EXCEPT ![a].status = "cancelled"]
    /\ orders' = Append(orders, a)
    /\ inventory' = inventory
    /\ daily_sales' = daily_sales

CancelOrder_keeps_current ==
    /\ current_order # None
    /\ heap[current_order].items # <<>>
    /\ cancel_order(current_order)
    /\ current_order' = current_order
    /\ st_error' = NoError
    /\ UNCHANGED <<menu, order_counter, restocks, checked>>

CancelOrder ==
    /\ current_order # None
    /\ heap[current_order].items # <<>>
    /\ cancel_order(current_order)
    /\ current_order' = None
    /\ st_error' = NoError
    /\ UNCHANGED <<menu, order_counter, restocks, checked>>

(***************************************************************************)
(* display_inventory: the "Add/Update Item" form.                          *)
(***************************************************************************)
stock_form_ok(item_name, quantity, unit) ==
    item_name # "" /\ quantity > 0 /\ unit # ""

inventory_upsert_overwrite(inv, item_name, quantity, unit, min_stock) ==
    IF stock_form_ok(item_name, quantity, unit)
    THEN DictSet(inv, item_name,
                 InventoryItem(item_name, quantity, unit, min_stock))
    ELSE inv

inventory_upsert(inv, item_name, quantity, unit, min_stock) ==
    IF stock_form_ok(item_name, quantity, unit)
    THEN IF item_name \in DOMAIN inv
         THEN [inv EXCEPT ![item_name].quantity = @ + quantity]
         ELSE DictSet(inv, item_name,
                      InventoryItem(item_name, quantity, unit, min_stock))
    ELSE inv

AddUpdateItem(item_name, quantity, unit, min_stock) ==
    /\ stock_form_ok(item_name, quantity, unit) => restocks < MaxRestocks
    /\ inventory' = inventory_upsert(inventory, item_name, quantity, unit,
                                     min_stock)
    /\ restocks' = IF stock_form_ok(item_name, quantity, unit)
                   THEN restocks + 1 ELSE restocks
    /\ st_error' = NoError
    /\ UNCHANGED <<menu, heap, orders, order_counter, daily_sales,
                   current_order, checked>>

(***************************************************************************)
(* add_menu_item_page: validation, ingredient text, insert or replace.     *)
(* The text area is a sequence of lines, each already stripped; a blank    *)
(* line is "".                                                             *)
(***************************************************************************)
menu_form_error_price_unchecked(name, price, category) ==
    IF name = "" THEN "Item Name is required!"
    ELSE IF category = "" THEN "Category is required!"
    ELSE NoError

menu_form_error(name, price, category) ==
    IF name = "" THEN "Item Name is required!"
    ELSE IF price <= 0 THEN "Price must be greater than $0!"
    ELSE IF category = "" THEN "Category is required!"
    ELSE NoError

NotBlank(line) == line # ""

ingredient_list(lines) == SelectSeq(lines, NotBlank)

menu_upsert(m, name, price, category, lines) ==
    IF menu_form_error(name, price, category) = NoError
    THEN DictSet(m, name,
                 MenuItem(name, price, category, ingredient_list(lines)))
    ELSE m

RepricedLine(line, name, price, category) ==
    IF line.name = name
    THEN [line EXCEPT !.price = price, !.category = category,
                      !.subtotal = price * line.quantity]
    ELSE line

RECURSIVE SumSubtotals(_)
SumSubtotals(items) ==
    IF items = <<>> THEN 0
    ELSE Head(items).subtotal + SumSubtotals(Tail(items))

RepricedOrder(o, name, price, category) ==
    [o EXCEPT
       !.items = [k \in 1..Len(o.items) |->
                    RepricedLine(o.items[k], name, price, category)],
       !.total = SumSubtotals([k \in 1..Len(o.items) |->
                    RepricedLine(o.items[k], name, price, category)])]

AddMenuItem_live_lines(name, price, category, lines) ==
    /\ menu' = menu_upsert(menu, name, price, category, lines)
    /\ heap' = IF menu_form_error(name, price, category) = NoError
               THEN [a \in 1..Len(heap) |->
                       RepricedOrder(heap[a], name, price, category)]
               ELSE heap
    /\ st_error' = NoError
    /\ UNCHANGED <<inventory, orders, order_counter, daily_sales,
                   current_order, restocks, checked>>

AddMenuItem(name, price, category, lines) ==
    /\ menu' = menu_upsert(menu, name, price, category, lines)
    /\ st_error' = NoError
    /\ UNCHANGED <<inventory, heap, orders, order_counter, daily_sales,
                   current_order, restocks, checked>>

(***************************************************************************)
(* daily_report: the completed orders of the history and the three         *)
(* metrics.  The average is a quotient of floats; here it is the fraction  *)
(* [num, den] it is computed from, [0, 1] on the branch that shows $0.00.  *)
(***************************************************************************)
IsCompleted(a) == heap[a].status = "completed"

all_orders == orders

completed_orders == SelectSeq(orders, IsCompleted)

total_orders == Len(completed_orders)

total_sales == daily_sales

avg_order_unguarded ==
    [num |-> daily_sales, den |-> Len(completed_orders)]

avg_order ==
    IF completed_orders # <<>>
    THEN [num |-> daily_sales, den |-> Len(completed_orders)]
    ELSE [num |-> 0, den |-> 1]

(***************************************************************************)
(* daily_report: popular items.  item_count is a dict, kept here as the    *)
(* sequence of its <<name, quantity>> rows in insertion order.             *)
(* sort_values leaves the order of rows with equal quantities to pandas:   *)
(* popular_df is the set of the row orders a descending sort can return.   *)
(***************************************************************************)
count_line(rows, line) ==
    IF \E k \in 1..Len(rows) : rows[k][1] = line.name
    THEN [k \in 1..Len(rows) |->
            IF rows[k][1] = line.name
            THEN <<rows[k][1], rows[k][2] + line.quantity>>
            ELSE rows[k]]
    ELSE Append(rows, <<line.name, line.quantity>>)

RECURSIVE count_items(_, _)
count_items(rows, items) ==
    IF items = <<>> THEN rows
    ELSE count_items(count_line(rows, Head(items)), Tail(items))

RECURSIVE count_orders(_, _)
count_orders(rows, ords) ==
    IF ords = <<>> THEN rows
    ELSE count_orders(count_items(rows, heap[Head(ords)].items), Tail(ords))

item_count == count_orders(<<>>, completed_orders)

Reordered(rows) ==
    {[k \in 1..Len(rows) |-> rows[p[k]]] : p \in Permutations(1..Len(rows))}

sort_values(rows) ==
    {r \in Reordered(rows) :
        \A j, k \in 1..Len(r) : j < k => r[j][2] >= r[k][2]}

popular_df == sort_values(item_count)

(***************************************************************************)
(* The session: one handler per step.                                      *)
(***************************************************************************)
NextOrders ==
    \/ \E c \in CustomerNames : StartNewOrder(c)
    \/ \E l \in LineInputs : AddToOrder(l[1], l[2])
    \/ CompleteOrder
    \/ CancelOrder

NextStock == \E f \in StockForms : AddUpdateItem(f[1], f[2], f[3], f[4])

NextMenu == \E f \in MenuForms : AddMenuItem(f[1], f[2], f[3], f[4])

Next == NextOrders \/ NextStock \/ NextMenu

Spec == Init /\ [][Next]_vars

(***************************************************************************)
(* The order handlers alone: the catalog stays as set up and no stock is   *)
(* added.                                                                  *)
(***************************************************************************)
SpecOrders == Init /\ [][NextOrders]_vars

(***************************************************************************)
(* complete_order(order) and Order.add_item(menu_item, quantity) called    *)
(* directly on an order that is no longer pending.  Neither body reads     *)
(* order.status.  The pages never make these calls: they only ever pass    *)
(* current_order, which is pending.                                        *)
(***************************************************************************)
CallCompleteOrder(a) ==
    /\ a \in 1..Len(heap)
    /\ heap[a].status # "pending"
    /\ Len(orders) < MaxHistory
    /\ complete_order(a)
    /\ UNCHANGED <<menu, order_counter, current_order, st_error, restocks,
                   checked>>

CallAddItem(a, selected_item, quantity) ==
    /\ a \in 1..Len(heap)
    /\ heap[a].status # "pending"
    /\ selected_item \in DOMAIN menu
    /\ TotalLines(heap) < MaxLineItems
    /\ heap' = [heap EXCEPT ![a] = add_item(@, menu[selected_item], quantity)]
    /\ checked' = [checked EXCEPT ![a] = Append(@, {})]
    /\ UNCHANGED <<menu, inventory, orders, order_counter, daily_sales,
                   current_order, st_error, restocks>>

NextCalls ==
    \/ \E a \in 1..MaxOrders : CallCompleteOrder(a)
    \/ \E a \in 1..MaxOrders, l \in LineInputs : CallAddItem(a, l[1], l[2])

NextApi == Next \/ NextCalls

SpecApi == Init /\ [][NextApi]_vars

(***************************************************************************)
(* Helpers of the properties.                                              *)
(***************************************************************************)
Min(S) == CHOOSE x \in S : \A y \in S : x <= y

Range(f) == {f[x] : x \in DOMAIN f}

RECURSIVE SumSeq(_)
SumSeq(q) == IF q = <<>> THEN 0 ELSE Head(q) + SumSeq(Tail(q))

Subtotals(o) == [k \in 1..Len(o.items) |-> o.items[k].subtotal]

(***************************************************************************)
(* C1: every inventory item's quantity stays >= 0 after any sequence of    *)
(* start, add line, complete and cancel: completing an order whose lines   *)
(* were all accepted never drives an ingredient negative.                  *)
(***************************************************************************)
C1_QuantityNeverNegative ==
    \A i \in DOMAIN inventory : inventory[i].quantity >= 0

(***************************************************************************)
(* C2: complete_order and add_item applied to an order that is not pending *)
(* change nothing: not the order, the inventory, the history or the daily  *)
(* sales.                                                                  *)
(***************************************************************************)
C2_NonPendingRejected ==
    [][\A a \in 1..Len(heap) :
         (\/ CallCompleteOrder(a)
          \/ \E l \in LineInputs : CallAddItem(a, l[1], l[2]))
         => UNCHANGED <<heap, inventory, orders, daily_sales>>]_vars

(***************************************************************************)
(* The line "Add to Order" appends for a selection, and the positions of   *)
(* the recipe whose ingredient the inventory holds with less than the      *)
(* requested quantity.                                                     *)
(***************************************************************************)
LineOf(selected_item, quantity) ==
    [name |-> selected_item, price |-> menu[selected_item].price,
     quantity |-> quantity, category |-> menu[selected_item].category,
     subtotal |-> menu[selected_item].price * quantity]

Recipe(selected_item) == menu[selected_item].ingredients

ShortAt(selected_item, quantity) ==
    {k \in 1..Len(Recipe(selected_item)) :
        /\ Recipe(selected_item)[k] \in DOMAIN inventory
        /\ inventory[Recipe(selected_item)[k]].quantity < quantity}

AddLineOn(l) ==
    /\ l[1] # ""
    /\ AddToOrder(l[1], l[2])

(***************************************************************************)
(* C3: when "Add to Order" asks for quantity q of an item and some         *)
(* ingredient of its recipe is held with quantity < q, the line is         *)
(* rejected: orders and inventory are unchanged, and the ingredient named  *)
(* is the first such ingredient in the recipe's list order.                *)
(***************************************************************************)
C3_ShortLineRejected ==
    [][\A l \in LineInputs :
         (AddLineOn(l) /\ ShortAt(l[1], l[2]) # {})
         => /\ heap' = heap
            /\ inventory' = inventory
            /\ st_error' = Recipe(l[1])[Min(ShortAt(l[1], l[2]))]]_vars

C3_Witness ==
    /\ st_error = "Honey"
    /\ inventory["Tea leaves"].quantity < 3
    /\ current_order # None

C5_AddLineKeepsLedger ==
    [][/\ (\E l \in LineInputs : AddToOrder(l[1], l[2]))
          => inventory' = inventory
       /\ ((\E c \in CustomerNames : StartNewOrder(c)) \/ CancelOrder)
          => inventory' = inventory
       /\ inventory' # inventory => (CompleteOrder \/ NextStock)]_vars

C5_Witness ==
    /\ current_order # None
    /\ Len(heap[current_order].items) = 2
    /\ st_error = "Tea leaves"
    /\ inventory = setup_default_inventory

(***************************************************************************)
(* The quantity of ingredient i consumed by the completed orders of the    *)
(* history: the sum of the quantities of their lines whose item's recipe   *)
(* lists i.                                                                *)
(***************************************************************************)
LineUses(line, i) ==
    IF i \in Range(menu[line.name].ingredients) THEN line.quantity ELSE 0

OrderUses(o, i) ==
    SumSeq([k \in 1..Len(o.items) |-> LineUses(o.items[k], i)])

Consumed(i) ==
    SumSeq([k \in 1..Len(orders) |->
              IF heap[orders[k]].status = "completed"
              THEN OrderUses(heap[orders[k]], i) ELSE 0])

(***************************************************************************)
(* C6: with the catalog unchanged and no stock added, each ingredient's    *)
(* quantity is its initial quantity minus the quantities of the lines of   *)
(* completed orders whose recipe lists it; pending and cancelled orders    *)
(* subtract nothing.                                                       *)
(***************************************************************************)
C6_LedgerReconciles ==
    \A i \in DOMAIN inventory :
        inventory[i].quantity =
            setup_default_inventory[i].quantity - Consumed(i)

C6_Witness ==
    /\ inventory["Coffee beans"].quantity = 97
    /\ inventory["Water"].quantity = 197
    /\ Len(orders) = 2
    /\ heap[orders[1]].status = "cancelled"
    /\ heap[orders[2]].status = "completed"
    /\ heap[orders[2]].items = <<LineOf("Espresso", 3)>>

(***************************************************************************)
(* C7: every order's total is the sum of the subtotals of its lines, each  *)
(* subtotal is the line's price times its quantity, and a new order has    *)
(* no lines and total 0.                                                   *)
(***************************************************************************)
TotalReconciles(o) ==
    /\ o.total = SumSeq(Subtotals(o))
    /\ \A k \in 1..Len(o.items) :
           o.items[k].subtotal = o.items[k].price * o.items[k].quantity

C7_TotalIsSumOfSubtotals ==
    /\ [](\A a \in 1..Len(heap) : TotalReconciles(heap[a]))
    /\ [][(\E c \in CustomerNames : StartNewOrder(c))
          => /\ heap'[current_order'].items = <<>>
             /\ heap'[current_order'].total = 0
             /\ heap'[current_order'].status = "pending"]_vars

C7_Witness ==
    \E a \in 1..Len(heap) :
        /\ heap[a].status = "completed"
        /\ Len(heap[a].items) = 2
        /\ heap[a].items[1].price # heap[a].items[2].price
        /\ heap[a].total = 1500

(***************************************************************************)
(* C8: the daily-sales accumulator the report shows as total sales is the  *)
(* sum of the totals of the completed orders of the history, and the       *)
(* reported number of orders is the number of those orders; cancelled      *)
(* orders add to neither.                                                  *)
(***************************************************************************)
C8_SalesMatchHistory ==
    /\ total_sales =
           SumSeq([k \in 1..Len(orders) |->
                     IF heap[orders[k]].status = "completed"
                     THEN heap[orders[k]].total ELSE 0])
    /\ total_orders =
           Cardinality({k \in 1..Len(orders) :
                           heap[orders[k]].status = "completed"})

C8_Witness ==
    /\ Len(orders) = 2
    /\ heap[orders[1]].status = "cancelled"
    /\ heap[orders[2]].status = "completed"
    /\ Len(heap[orders[2]].items) = 2
    /\ daily_sales = heap[orders[2]].total
    /\ total_orders = 1

(***************************************************************************)
(* C9: cancelling the pending order sets its status to cancelled and       *)
(* appends it to the history, and leaves every inventory quantity and the  *)
(* daily sales unchanged, whatever lines it holds.                         *)
(***************************************************************************)
C9_CancelFrame ==
    [][(CancelOrder /\ heap[current_order].status = "pending")
       => /\ heap'[current_order].status = "cancelled"
          /\ orders' = Append(orders, current_order)
          /\ \A i \in DOMAIN inventory :
                 /\ i \in DOMAIN inventory'
                 /\ inventory'[i].quantity = inventory[i].quantity
          /\ daily_sales' = daily_sales]_vars

C9_Witness ==
    /\ orders # <<>>
    /\ heap[orders[Len(orders)]].status = "cancelled"
    /\ Len(heap[orders[Len(orders)]].items) = 2
    /\ current_order = None

(***************************************************************************)
(* C10: an order starts pending and changes status at most once, to        *)
(* completed or cancelled; nothing moves it out of completed or cancelled  *)
(* or back to pending, and once it is finalized its lines and total never  *)
(* change.                                                                 *)
(***************************************************************************)
C10_StatusOneWay ==
    [][/\ Len(heap') >= Len(heap)
       /\ \A a \in 1..Len(heap') :
              IF a > Len(heap)
              THEN heap'[a].status = "pending"
              ELSE /\ heap[a].status # "pending" => heap'[a] = heap[a]
                   /\ heap'[a].status # heap[a].status
                      => heap'[a].status \in {"completed", "cancelled"}]_vars

C10_Witness ==
    /\ Len(orders) = 1
    /\ heap[orders[1]].status = "completed"
    /\ current_order # None
    /\ current_order # orders[1]
    /\ Len(heap[current_order].items) = 2

(***************************************************************************)
(* C11: the only precondition of cancelling is that the order is pending:  *)
(* every pending order, one with no lines included, can be cancelled.      *)
(***************************************************************************)
C11_PendingCanBeCancelled ==
    (current_order # None /\ heap[current_order].status = "pending")
        => ENABLED CancelOrder

(***************************************************************************)
(* C12: line items are snapshots.  A catalog upsert that replaces a menu   *)
(* item's price or category after a line for it was added leaves the       *)
(* line's price, category and subtotal, the order's total, and the         *)
(* popularity counts of the completed orders unchanged.                    *)
(* (An upsert that leaves the menu as it was changes nothing at all.)      *)
(***************************************************************************)
C12_LinesAreSnapshots ==
    [][(/\ menu' # menu
        /\ \E f \in MenuForms : AddMenuItem(f[1], f[2], f[3], f[4]))
       => /\ \A a \in 1..Len(heap) :
                 /\ heap'[a].items = heap[a].items
                 /\ heap'[a].total = heap[a].total
          /\ item_count' = item_count]_vars

C12_Witness ==
    /\ menu["Green Tea"].price = 300
    /\ menu["Green Tea"].category = "Drinks"
    /\ orders # <<>>
    /\ heap[orders[1]].status = "completed"
    /\ heap[orders[1]].items[1] =
           [name |-> "Green Tea", price |-> 200, quantity |-> 3,
            category |-> "Tea", subtotal |-> 600]
    /\ heap[orders[1]].total = 600
    /\ item_count = << <<"Green Tea", 3>> >>

(***************************************************************************)
(* C13: order ids are positive, unique and assigned in increasing order:   *)
(* each new order's id is greater than every id assigned before it, so no  *)
(* two orders, pending or in the history, share an id.  (The heap keeps    *)
(* the orders in the order they were created.)                             *)
(***************************************************************************)
C13_OrderIdsIncrease ==
    \A a \in 1..Len(heap) :
        /\ heap[a].order_id >= 1
        /\ heap[a].order_id < order_counter
        /\ \A b \in 1..Len(heap) :
               a < b => heap[a].order_id < heap[b].order_id

C13_Witness ==
    /\ Len(heap) = 2
    /\ orders = <<1>>
    /\ heap[1].status = "cancelled"
    /\ current_order = 2
    /\ heap[1].order_id = 1
    /\ heap[2].order_id = 2

(***************************************************************************)
(* What the stock form is claimed to turn the inventory `inv` into, for an *)
(* accepted form f = <<name, quantity, unit, min_stock>>: the quantity is  *)
(* added to the entry that exists, or the entry is created with the given  *)
(* quantity and min_stock; every other entry stays.                        *)
(***************************************************************************)
StockUpserted(inv, new, f) ==
    IF f[1] \in DOMAIN inv
    THEN /\ DOMAIN new = DOMAIN inv
         /\ new[f[1]].quantity = inv[f[1]].quantity + f[2]
         /\ \A i \in DOMAIN inv \ {f[1]} : new[i] = inv[i]
    ELSE /\ DOMAIN new = DOMAIN inv \cup {f[1]}
         /\ new[f[1]].quantity = f[2]
         /\ new[f[1]].min_stock = f[4]
         /\ \A i \in DOMAIN inv : new[i] = inv[i]

(***************************************************************************)
(* C14 as claimed: the stock upsert with quantity > 0 and a non-empty unit *)
(* adds the quantity to an existing entry or creates a new entry with the  *)
(* given quantity and min_stock, every other entry unchanged; with         *)
(* quantity <= 0 or an empty unit the inventory is unchanged.              *)
(***************************************************************************)
C14_UpsertAsClaimed ==
    \A f \in StockForms :
        IF f[2] > 0 /\ f[3] # ""
        THEN StockUpserted(inventory,
                 inventory_upsert(inventory, f[1], f[2], f[3], f[4]), f)
        ELSE inventory_upsert(inventory, f[1], f[2], f[3], f[4]) = inventory

(***************************************************************************)
(* C14 amended: the same for a form with a non-empty name, quantity > 0    *)
(* and a non-empty unit; with an empty name, quantity <= 0 or an empty     *)
(* unit the inventory is unchanged.  It holds of the upsert applied to     *)
(* every reachable inventory and of every step of the form's handler.      *)
(***************************************************************************)
StockFormAccepted(f) == f[1] # "" /\ f[2] > 0 /\ f[3] # ""

C14_UpsertNeedsName ==
    /\ [](\A f \in StockForms :
            IF StockFormAccepted(f)
            THEN StockUpserted(inventory,
                     inventory_upsert(inventory, f[1], f[2], f[3], f[4]), f)
            ELSE inventory_upsert(inventory, f[1], f[2], f[3], f[4])
                     = inventory)
    /\ [][\A f \in StockForms :
            AddUpdateItem(f[1], f[2], f[3], f[4])
            => IF StockFormAccepted(f)
               THEN StockUpserted(inventory, inventory', f)
               ELSE inventory' = inventory]_vars

C14_Witness ==
    /\ inventory["Tea leaves"].quantity = 7
    /\ inventory["Tea leaves"].unit = "kg"
    /\ inventory["Tea leaves"].min_stock = 1
    /\ restocks = 1

(***************************************************************************)
(* C15: the catalog upsert fails and leaves the catalog unchanged when the *)
(* name is empty, the price is <= 0 or the category is empty; otherwise it *)
(* inserts the entry or replaces the entry of that name, one entry per     *)
(* name.  So every catalog entry always has a non-empty name, a price > 0  *)
(* and a non-empty category.                                               *)
(***************************************************************************)
MenuFormInvalid(f) == f[1] = "" \/ f[2] <= 0 \/ f[3] = ""

MenuUpserted(m, new, f) ==
    /\ DOMAIN new = DOMAIN m \cup {f[1]}
    /\ new[f[1]].name = f[1]
    /\ new[f[1]].price = f[2]
    /\ new[f[1]].category = f[3]
    /\ \A n \in DOMAIN m \ {f[1]} : new[n] = m[n]

CatalogEntriesValid ==
    \A n \in DOMAIN menu :
        /\ n # ""
        /\ menu[n].name = n
        /\ menu[n].price > 0
        /\ menu[n].category # ""

C15_CatalogUpsertValidates ==
    /\ []CatalogEntriesValid
    /\ [](\A f \in MenuForms :
            IF MenuFormInvalid(f)
            THEN /\ menu_form_error(f[1], f[2], f[3]) # NoError
                 /\ menu_upsert(menu, f[1], f[2], f[3], f[4]) = menu
            ELSE /\ menu_form_error(f[1], f[2], f[3]) = NoError
                 /\ MenuUpserted(menu,
                        menu_upsert(menu, f[1], f[2], f[3], f[4]), f))
    /\ [][\A f \in MenuForms :
            AddMenuItem(f[1], f[2], f[3], f[4])
            => IF MenuFormInvalid(f)
               THEN menu' = menu
               ELSE MenuUpserted(menu, menu', f)]_vars

C15_Witness ==
    /\ "Chai" \in DOMAIN menu
    /\ menu["Chai"].price = 300
    /\ menu["Green Tea"].price = 300
    /\ menu["Green Tea"].category = "Drinks"
    /\ Cardinality(DOMAIN menu) = 9

(***************************************************************************)
(* C16: when the history holds no completed order (it is empty or holds    *)
(* only cancelled orders) the report shows 0 orders, total sales 0 and an  *)
(* average of 0, without dividing by zero; otherwise the average is the    *)
(* total sales divided by the number of completed orders.                  *)
(***************************************************************************)
NoCompletedOrder ==
    \A k \in 1..Len(orders) : heap[orders[k]].status # "completed"

C16_AverageGuarded ==
    /\ avg_order.den # 0
    /\ IF NoCompletedOrder
       THEN /\ total_orders = 0
            /\ total_sales = 0
            /\ avg_order.num = 0
       ELSE /\ avg_order.num = total_sales
            /\ avg_order.den = total_orders

C16_Witness ==
    /\ Len(orders) = 2
    /\ NoCompletedOrder
    /\ heap[orders[1]].total > 0
    /\ heap[orders[2]].total > 0

(***************************************************************************)
(* The quantity sold of item n: the sum of the quantities of the lines     *)
(* named n over the completed orders of the history.                       *)
(***************************************************************************)
SoldIn(o, n) ==
    SumSeq([k \in 1..Len(o.items) |->
              IF o.items[k].name = n THEN o.items[k].quantity ELSE 0])

Sold(n) ==
    SumSeq([k \in 1..Len(orders) |->
              IF heap[orders[k]].status = "completed"
              THEN SoldIn(heap[orders[k]], n) ELSE 0])

SoldNames ==
    UNION {{heap[orders[k]].items[j].name :
               j \in 1..Len(heap[orders[k]].items)} :
           k \in {x \in 1..Len(orders) :
                     heap[orders[x]].status = "completed"}}

(***************************************************************************)
(* C17: the popular-items report maps each item name to the sum of the     *)
(* line quantities over the lines of completed orders only (lines of       *)
(* cancelled orders are not counted), and lists the entries in             *)
(* non-increasing order of that sum.                                       *)
(***************************************************************************)
C17_PopularItems ==
    /\ popular_df # {}
    /\ \A r \in popular_df :
           /\ {r[k][1] : k \in 1..Len(r)} = SoldNames
           /\ Len(r) = Cardinality(SoldNames)
           /\ \A k \in 1..Len(r) : r[k][2] = Sold(r[k][1])
           /\ \A k \in 1..Len(r) - 1 : r[k][2] >= r[k + 1][2]

C17_Witness ==
    /\ Len(completed_orders) = 2
    /\ item_count = << <<"Espresso", 3>>, <<"Green Tea", 6>> >>
    /\ popular_df = { << <<"Green Tea", 6>>, <<"Espresso", 3>> >> }


(***************************************************************************)
(* C18: every decrement complete_order makes was validated when the line   *)
(* was accepted: for each line of the order being completed and each       *)
(* ingredient complete_order decrements for that line, "Add to Order"      *)
(* compared that ingredient's stock with the line's quantity, also when    *)
(* the item's recipe was replaced on the menu page in between.             *)
(***************************************************************************)
Decrements(line) == compared(menu[line.name].ingredients, inventory)

C18_DecrementsWereChecked ==
    [][CompleteOrder
         => \A k \in 1..Len(heap[current_order].items) :
                Decrements(heap[current_order].items[k])
                    \subseteq checked[current_order][k]]_vars


(***************************************************************************)
(* C19: in every reachable state at most one order is pending, the pending *)
(* order is not in the history, every order in the history is completed or *)
(* cancelled, no order is in the history twice; and every step keeps the   *)
(* earlier history entries, in their order (the history is append-only).   *)
(***************************************************************************)
PendingOrders == {a \in 1..Len(heap) : heap[a].status = "pending"}

HistoryWellFormed ==
    /\ Cardinality(PendingOrders) <= 1
    /\ \A k \in 1..Len(orders) :
           /\ orders[k] \notin PendingOrders
           /\ heap[orders[k]].status \in {"completed", "cancelled"}
    /\ \A j, k \in 1..Len(orders) : orders[j] = orders[k] => j = k

HistoryAppendOnly ==
    /\ Len(orders') >= Len(orders)
    /\ SubSeq(orders', 1, Len(orders)) = orders

C19_OnePendingAppendOnlyHistory ==
    /\ []HistoryWellFormed
    /\ [][HistoryAppendOnly]_vars

C19_Witness ==
    /\ orders = <<1>>
    /\ heap[1].status = "cancelled"
    /\ current_order = 2
    /\ PendingOrders = {2}
    /\ heap[2].items # <<>>

====
